---------------------------- MODULE Spec2Model ----------------------------
(***************************************************************************)
(* A model of the StepUp preparation scripts:                              *)
(*   update_stepup.py   - catalog synchronization against the CDR          *)
(*   prep_stepup.py     - label classification and StepUp JSON encoding    *)
(*   gen_known_labels.py - construction of the known-labels dictionary     *)
(* Strings that the code inspects character by character (labels,          *)
(* keywords, type names) are sequences of one-character strings.           *)
(***************************************************************************)
EXTENDS Integers, Sequences, FiniteSets, TLC

VARIABLES
    \* ---- update_stepup.py: main and CdrConnector ----
    inv_df,          \* the inventory rows after the notna() filter
    i,               \* number of inventory rows already iterated
    legend_files,    \* ids X for which legends/stepup_X.json exists
    image_files,     \* ids X for which images/stepup_X.tif exists
    files0,          \* the files present when the run started (history)
    bad_ids,         \* main's bad_ids list
    registration,    \* CdrConnector.registration
    sync_pc,         \* position of the run
    net_calls,       \* per id, the number of HTTP requests issued for it
    row_log,         \* per iterated row, what happened to it (history)
    session,         \* register / unregister requests issued (history)
    \* ---- prep_stepup.py: main and saveSteupUpJson ----
    true_labels,     \* the known-labels dictionary read from the -k file
    features,        \* legend.features as loaded (history)
    fi,              \* number of features already classified
    output_legend,   \* output_legend.features
    stat_dict,       \* main's stat_dict
    prep_pc,         \* position of the run
    si,              \* number of map units already written by the save
    shapes,          \* output_json['shapes'] of saveSteupUpJson
    \* ---- gen_known_labels.py: main ----
    gen_corpus,      \* the features of all ground-truth legends, in loop order
    gi,              \* number of corpus features already scanned
    gen_labels,      \* main's true_labels
    gen_pc,          \* position of the run
    gen_prev,        \* the buckets the previous run wrote, as sets (history)
    \* ---- prep_stepup.py: parallelLoadLegends and its caller ----
    data,            \* args.data, the legend files to load
    broken,          \* the files that Legend.parse_file fails on
    unlabeled,       \* the files holding a unit with no label and no abbreviation
    futures,         \* the state of every submitted task
    finish_log,      \* the tasks in the order they completed (history)
    stepup_legends,  \* the legends mapping, as pairs <<map_name, file>>
    collected,       \* number of futures whose result has been taken
    load_pc,         \* position of the collecting thread
    output_files     \* the map names whose output file has been written

prepVars == <<true_labels, features, fi, output_legend, stat_dict, prep_pc,
              si, shapes>>

genVars == <<gen_corpus, gi, gen_labels, gen_pc, gen_prev>>

loadVars == <<data, broken, unlabeled, futures, finish_log, stepup_legends, collected,
              load_pc, output_files>>

syncVars == <<inv_df, i, legend_files, image_files, files0, bad_ids,
              registration, sync_pc, net_calls, row_log, session>>

vars == <<syncVars, prepVars, genVars, loadVars>>

Range(s) == {s[k] : k \in DOMAIN s}

\* All sequences over S of length at most n.
SeqsUpTo(S, n) == UNION {[1..m -> S] : m \in 0..n}

\* line 65: true_labels as created
EmptyLabels == [Points |-> <<>>, Lines |-> <<>>, Polygons |-> <<>>,
                Unknown |-> <<>>]

\* no run of the builder has written anything yet
NoLabels == [Points |-> {}, Lines |-> {}, Polygons |-> {}, Unknown |-> {}]

\* gen_known_labels.py is not running
GenIdle ==
    /\ gen_corpus = <<>>
    /\ gi = 0
    /\ gen_labels = EmptyLabels
    /\ gen_pc = "idle"
    /\ gen_prev = NoLabels

\* parallelLoadLegends is not running
LoadIdle ==
    /\ data = <<>>
    /\ broken = {}
    /\ unlabeled = {}
    /\ futures = <<>>
    /\ finish_log = <<>>
    /\ stepup_legends = {}
    /\ collected = 0
    /\ load_pc = "idle"
    /\ output_files = {}

\* line 117: stat_dict as created
EmptyStats == [Points |-> <<>>, Lines |-> <<>>, Likely_Lines |-> <<>>,
               Polygons |-> <<>>, Likely_Polygons |-> <<>>, Unknown |-> <<>>]

\* prep_stepup.py is not running
PrepIdle ==
    /\ true_labels = [Points |-> <<>>, Lines |-> <<>>, Polygons |-> <<>>,
                      Unknown |-> <<>>]
    /\ features = <<>>
    /\ fi = 0
    /\ output_legend = <<>>
    /\ stat_dict = EmptyStats
    /\ prep_pc = "idle"
    /\ si = 0
    /\ shapes = <<>>

\* the strings of the sources and of the scenario, character by character
Str_spring ==
    <<"s", "p", "r", "i", "n", "g">>
Str_fault ==
    <<"f", "a", "u", "l", "t">>
Str_qal ==
    <<"q", "a", "l">>
Str_Spring ==
    <<"S", "p", "r", "i", "n", "g">>
Str_Normal_Fault ==
    <<"N", "o", "r", "m", "a", "l", " ", "F", "a", "u", "l", "t">>
Str_Qal ==
    <<"Q", "a", "l">>
Str_Xyz ==
    <<"X", "y", "z">>
Str_AB ==
    <<"A", "B">>
Str_normal ==
    <<"n", "o", "r", "m", "a", "l">>
Str_Granite ==
    <<"G", "r", "a", "n", "i", "t", "e">>
Str_monocline ==
    <<"m", "o", "n", "o", "c", "l", "i", "n", "e">>
Str_syncline ==
    <<"s", "y", "n", "c", "l", "i", "n", "e">>
Str_anticline ==
    <<"a", "n", "t", "i", "c", "l", "i", "n", "e">>
Str_antiform ==
    <<"a", "n", "t", "i", "f", "o", "r", "m">>
Str_synform ==
    <<"s", "y", "n", "f", "o", "r", "m">>
Str_Syncline ==
    <<"S", "y", "n", "c", "l", "i", "n", "e">>

(***************************************************************************)
(* update_stepup.py                                                        *)
(***************************************************************************)
MaxRows == 2

None == "None"
NgmdbIds == {"m1", "m2"}
Flags == {"1", "0"}
RegistrationId == "reg-id"

\* Outcomes of the remote calls of one row.
CogOutcomes == {"ok", "raise"}
LegendOutcomes == {"items", "empty", "raise"}
ImageOutcomes == {"ok", "non200", "raise"}
HttpOutcomes == {"ok", "raise"}

\* line 229: the row is marked "label completed"
LabelCompleted(row) == row.label_completed = "1"

\* AlreadyHaveData testing the legend only.
AlreadyHaveData_LegendOnly(id, legs, imgs) == id \in legs /\ id \notin imgs

\* line 233: both target files already exist
AlreadyHaveData(id, legs, imgs) == id \in legs /\ id \in imgs

\* One HTTP request issued for id.
Called(st, id) == [st EXCEPT !.calls[id] = @ + 1]

\* lines 238-244: retrieve_cog_id inside try/except
CogStep(st, id, cog) ==
    IF cog = "raise"
    THEN [Called(st, id) EXCEPT !.bad = Append(@, id),
                                !.flow = "continue", !.status = "bad_cog",
                                !.failed = "cog"]
    ELSE Called(st, id)

\* LegendStep with the 'continue' of line 255 left out.
LegendStep_NoContinue(st, id, lg) ==
    IF st.flow # "next" \/ id \in st.legends THEN st
    ELSE IF lg = "raise"
         THEN [Called(st, id) EXCEPT !.flow = "raise", !.status = "raise_legend",
                                     !.failed = "legend"]
    ELSE IF lg = "empty"
         THEN [Called(st, id) EXCEPT !.bad = Append(@, id)]
    ELSE [Called(st, id) EXCEPT !.legends = @ \cup {id}]

\* lines 249-257: legend retrieval, not guarded by any try
LegendStep(st, id, lg) ==
    IF st.flow # "next" \/ id \in st.legends THEN st
    ELSE IF lg = "raise"
         THEN [Called(st, id) EXCEPT !.flow = "raise", !.status = "raise_legend",
                                     !.failed = "legend"]
    ELSE IF lg = "empty"
         THEN [Called(st, id) EXCEPT !.bad = Append(@, id),
                                     !.flow = "continue", !.status = "bad_empty",
                                     !.failed = "legend_empty"]
    ELSE [Called(st, id) EXCEPT !.legends = @ \cup {id}]

\* lines 260-264 with download_ngmdb_tif (144-151): a non-200 answer makes
\* download_ngmdb_tif return None; the file is opened (created) and
\* file.write(None) raises TypeError.  A transport error raises before open.
ImageStep(st, id, img) ==
    IF st.flow # "next" \/ id \in st.images THEN st
    ELSE IF img = "raise"
         THEN [Called(st, id) EXCEPT !.flow = "raise", !.status = "raise_image",
                                     !.failed = "image"]
    ELSE IF img = "non200"
         THEN [Called(st, id) EXCEPT !.images = @ \cup {id},
                                     !.flow = "raise", !.status = "raise_write",
                                     !.failed = "image"]
    ELSE [Called(st, id) EXCEPT !.images = @ \cup {id}, !.status = "done"]

\* lines 226-266: one iteration of the loop over inventory rows
RowResult(row, st, cog, lg, img) ==
    IF ~LabelCompleted(row)
    THEN [st EXCEPT !.flow = "continue", !.status = "skip_flag"]
    ELSE IF AlreadyHaveData(row.proddesc, st.legends, st.images)
    THEN [st EXCEPT !.flow = "continue", !.status = "skip_exists"]
    ELSE ImageStep(LegendStep(CogStep(st, row.proddesc, cog),
                              row.proddesc, lg),
                   row.proddesc, img)

InitSync ==
    /\ PrepIdle
    /\ GenIdle
    /\ LoadIdle
    /\ inv_df \in SeqsUpTo([proddesc : NgmdbIds, label_completed : Flags], MaxRows)
    /\ i = 0
    /\ legend_files \in SUBSET NgmdbIds
    /\ image_files \in SUBSET NgmdbIds
    /\ files0 = [legends |-> legend_files, images |-> image_files]
    /\ bad_ids = <<>>
    /\ registration = None
    /\ sync_pc = "start"
    /\ net_calls = [id \in NgmdbIds |-> 0]
    /\ row_log = <<>>
    /\ session = <<>>

\* CdrConnector.register, lines 43-63, called at line 218
Register ==
    /\ sync_pc = "start"
    /\ \E r \in HttpOutcomes :
        /\ session' = Append(session, "register_" \o r)
        /\ IF r = "ok"
           THEN registration' = RegistrationId /\ sync_pc' = "loop"
           ELSE registration' = registration /\ sync_pc' = "raised"
    /\ UNCHANGED <<inv_df, i, legend_files, image_files, files0, bad_ids,
                   net_calls, row_log>>
    /\ UNCHANGED <<prepVars, genVars, loadVars>>

\* lines 222-266
ProcessRow ==
    /\ sync_pc = "loop"
    /\ i < Len(inv_df)
    /\ \E cog \in CogOutcomes, lg \in LegendOutcomes, img \in ImageOutcomes :
        LET st0 == [legends |-> legend_files, images |-> image_files,
                    bad |-> bad_ids, calls |-> net_calls,
                    flow |-> "next", status |-> "done", failed |-> "none"]
            st == RowResult(inv_df[i + 1], st0, cog, lg, img)
        IN  /\ legend_files' = st.legends
            /\ image_files' = st.images
            /\ bad_ids' = st.bad
            /\ net_calls' = st.calls
            /\ row_log' = Append(row_log, [id |-> inv_df[i + 1].proddesc,
                                            status |-> st.status,
                                            failed |-> st.failed,
                                            flow |-> st.flow])
            /\ sync_pc' = IF st.flow = "raise" THEN "raised" ELSE "loop"
    /\ i' = i + 1
    /\ UNCHANGED <<inv_df, files0, registration, session>>
    /\ UNCHANGED <<prepVars, genVars, loadVars>>

\* CdrConnector.unregister, lines 65-75: the id is cleared only after
\* raise_for_status passed.
UnregisterCall(r) ==
    /\ session' = Append(session, "unregister_" \o r)
    /\ registration' = IF r = "ok" THEN None ELSE registration

\* line 273
Unregister ==
    /\ sync_pc = "loop"
    /\ i = Len(inv_df)
    /\ \E r \in HttpOutcomes :
        /\ UnregisterCall(r)
        /\ sync_pc' = IF r = "ok" THEN "returned" ELSE "raised"
    /\ UNCHANGED <<inv_df, i, legend_files, image_files, files0, bad_ids,
                   net_calls, row_log>>
    /\ UNCHANGED <<prepVars, genVars, loadVars>>

\* CdrConnector.__del__, lines 107-109: runs when the interpreter finalizes
\* the connector after main has returned or raised.
Finalize ==
    /\ sync_pc \in {"returned", "raised"}
    /\ IF registration # None
       THEN \E r \in HttpOutcomes : UnregisterCall(r)
       ELSE UNCHANGED <<registration, session>>
    /\ sync_pc' = "exited"
    /\ UNCHANGED <<inv_df, i, legend_files, image_files, files0, bad_ids,
                   net_calls, row_log>>
    /\ UNCHANGED <<prepVars, genVars, loadVars>>

\* The interpreter exits without finalizing the connector: Python does not
\* guarantee that __del__ runs for objects alive at interpreter exit.
ExitUnfinalized ==
    /\ sync_pc \in {"returned", "raised"}
    /\ sync_pc' = "exited"
    /\ UNCHANGED <<inv_df, i, legend_files, image_files, files0, bad_ids,
                   registration, net_calls, row_log, session>>
    /\ UNCHANGED <<prepVars, genVars, loadVars>>

NextSync == Register \/ ProcessRow \/ Unregister \/ Finalize \/ ExitUnfinalized

SpecSync == InitSync /\ [][NextSync]_vars


\* update_stepup.py is not running
SyncIdle ==
    /\ inv_df = <<>>
    /\ i = 0
    /\ legend_files = {}
    /\ image_files = {}
    /\ files0 = [legends |-> {}, images |-> {}]
    /\ bad_ids = <<>>
    /\ registration = None
    /\ sync_pc = "idle"
    /\ net_calls = [id \in NgmdbIds |-> 0]
    /\ row_log = <<>>
    /\ session = <<>>

(***************************************************************************)
(* prep_stepup.py                                                          *)
(***************************************************************************)
MaxLabelLen == 5
MaxBucket == 2
ShortLabelLen == 5

POINT == "POINT"
LINE == "LINE"
POLYGON == "POLYGON"
UNKNOWN == "UNKNOWN"
MapUnitTypes == {POINT, LINE, POLYGON, UNKNOWN}

UpperChars == <<"A", "B", "C", "D", "E", "F", "G", "H", "I", "J", "K", "L",
                "M", "N", "O", "P", "Q", "R", "S", "T", "U", "V", "W", "X",
                "Y", "Z", "À", "Á", "Â", "Ã", "Ä", "Å", "Æ", "Ç", "È", "É",
                "Ê", "Ë", "Ì", "Í", "Î", "Ï", "Ð", "Ñ", "Ò", "Ó", "Ô", "Õ",
                "Ö", "Ø", "Ù", "Ú", "Û", "Ü", "Ý", "Þ">>
LowerChars == <<"a", "b", "c", "d", "e", "f", "g", "h", "i", "j", "k", "l",
                "m", "n", "o", "p", "q", "r", "s", "t", "u", "v", "w", "x",
                "y", "z", "à", "á", "â", "ã", "ä", "å", "æ", "ç", "è", "é",
                "ê", "ë", "ì", "í", "î", "ï", "ð", "ñ", "ò", "ó", "ô", "õ",
                "ö", "ø", "ù", "ú", "û", "ü", "ý", "þ">>

\* characters without case
Caseless == <<"0", "1", "2", "3", "4", "5", "6", "7", "8", "9", " ", "_",
              "-", ".", ",", "(", ")", "/">>

\* the lowercase form of the characters the model covers: the letters of
\* ASCII and Latin-1, digits, the space and some punctuation
LowerOf ==
    [c \in Range(UpperChars) \cup Range(LowerChars) \cup Range(Caseless) |->
        IF c \in Range(UpperChars)
        THEN LowerChars[CHOOSE k \in DOMAIN UpperChars : UpperChars[k] = c]
        ELSE c]

\* str.lower() on one character of DOMAIN LowerOf; other characters are
\* outside the model
LowerChar(c) == LowerOf[c]

\* str.lower()
Lower(str) == [k \in DOMAIN str |-> LowerChar(str[k])]

\* IsSubstring as b.startswith(a).
IsSubstring_Prefix(a, b) == Len(a) <= Len(b) /\ SubSeq(b, 1, Len(a)) = a

\* 'a in b' for two strings
IsSubstring(a, b) ==
    \E k \in 0..(Len(b) - Len(a)) : SubSeq(b, k + 1, k + Len(a)) = a

\* 'x in lst' for a list
InList(x, lst) == \E k \in DOMAIN lst : lst[k] = x

\* IsShort with the comparison one off.
IsShort_Le(held) == Len(held) <= ShortLabelLen

\* IsShort with the threshold one lower.
IsShort_Lt4(held) == Len(held) < ShortLabelLen - 1

\* line 143: len(feature.label) < 5
IsShort(held) == Len(held) < ShortLabelLen

\* lines 150-157: the index of the first entry of lines that is a substring
\* of label, scanning from index k; 0 when there is none.
RECURSIVE FirstLineFrom(_, _, _)
FirstLineFrom(lines, label, k) ==
    IF k > Len(lines) THEN 0
    ELSE IF IsSubstring(lines[k], label) THEN k
    ELSE FirstLineFrom(lines, label, k + 1)

\* ClassifyLabel testing the Lines bucket before the Points bucket.
ClassifyLabel_LinesFirst(held, tl) ==
    LET label == Lower(held) IN
    IF InList(label, tl.Lines)
    THEN [type |-> LINE, stat |-> "Lines", entry |-> label]
    ELSE IF InList(label, tl.Points)
    THEN [type |-> POINT, stat |-> "Points", entry |-> label]
    ELSE IF InList(label, tl.Polygons)
    THEN [type |-> POLYGON, stat |-> "Polygons", entry |-> label]
    ELSE IF IsShort(held)
    THEN [type |-> POLYGON, stat |-> "Likely_Polygons", entry |-> label]
    ELSE LET k == FirstLineFrom(tl.Lines, label, 1) IN
         IF k > 0
         THEN [type |-> LINE, stat |-> "Likely_Lines", entry |-> tl.Lines[k]]
         ELSE [type |-> UNKNOWN, stat |-> "Unknown", entry |-> label]

\* lines 128-161: the cascade on the label held by the feature
ClassifyLabel(held, tl) ==
    LET label == Lower(held) IN
    IF InList(label, tl.Points)
    THEN [type |-> POINT, stat |-> "Points", entry |-> label]
    ELSE IF InList(label, tl.Lines)
    THEN [type |-> LINE, stat |-> "Lines", entry |-> label]
    ELSE IF InList(label, tl.Polygons)
    THEN [type |-> POLYGON, stat |-> "Polygons", entry |-> label]
    ELSE IF IsShort(held)
    THEN [type |-> POLYGON, stat |-> "Likely_Polygons", entry |-> label]
    ELSE LET k == FirstLineFrom(tl.Lines, label, 1) IN
         IF k > 0
         THEN [type |-> LINE, stat |-> "Likely_Lines", entry |-> tl.Lines[k]]
         ELSE [type |-> UNKNOWN, stat |-> "Unknown", entry |-> label]

\* MapUnitType.to_str of cmaas_utils, as used at line 70
to_str(t) ==
    CASE t = POINT -> <<"p", "t">>
      [] t = LINE -> <<"l", "i", "n", "e">>
      [] t = POLYGON -> <<"p", "o", "l", "y">>
      [] OTHER -> <<"u", "n", "k", "n", "o", "w", "n">>

DescSuffix == <<"_", "d", "e", "s", "c">>

\* line 66: label.replace(' ', '_')
ReplaceSpaces(str) == [k \in DOMAIN str |-> IF str[k] = " " THEN "_" ELSE str[k]]

\* ShapeLabel with the type suffix left out.
ShapeLabel_NoType(u) == u.label

\* lines 67-70: the label of the label-box shape of a unit whose label has
\* been rewritten
ShapeLabel(u) ==
    IF u.type = UNKNOWN THEN u.label ELSE u.label \o <<"_">> \o to_str(u.type)

\* lines 71-74: the shapes appended for one unit
UnitShapes(u) ==
    <<[label |-> ShapeLabel(u), points |-> "label_bbox"]>>
    \o (IF u.description # None
        THEN <<[label |-> ShapeLabel(u) \o DescSuffix, points |-> "description"]>>
        ELSE <<>>)

\* abbreviation = None (the field is optional); no string, being no
\* sequence of single characters
NoneStr == <<"None">>

\* lines 121-122: an empty label is replaced by the abbreviation
HeldLabel(feature) ==
    IF feature.label = <<>> THEN feature.abbreviation ELSE feature.label

\* ---- inputs ----
LabelChars == {"a", "B"}
KeyList == <<<<"a">>, <<"b">>, <<"a", "B">>>>
Labels == SeqsUpTo(LabelChars, MaxLabelLen)

NoDuplicates(lst) ==
    \A j, k \in DOMAIN lst : j # k => lst[j] # lst[k]

\* a bucket as json.loads gives it (lines 107-108): the entries are taken as
\* they are in the file, in lower or mixed case
KeyIndexes == {ix \in SeqsUpTo(DOMAIN KeyList, MaxBucket) : NoDuplicates(ix)}
Buckets == {[k \in DOMAIN ix |-> KeyList[ix[k]]] : ix \in KeyIndexes}

\* the buckets that are only tested for membership, in one order each
Ascending(ix) == \A j, k \in DOMAIN ix : j < k => ix[j] < ix[k]
MemberBuckets ==
    {[k \in DOMAIN ix |-> KeyList[ix[k]]] : ix \in {x \in KeyIndexes : Ascending(x)}}

GenDicts == [Points : MemberBuckets, Lines : Buckets, Polygons : MemberBuckets,
             Unknown : {<<>>}]

Unit(l, a, t, d) ==
    [label |-> l, abbreviation |-> a, type |-> t, description |-> d]
Rect == "rect"

\* the abbreviations: empty, and those around the length threshold
Abbreviations ==
    {a \in Labels : Len(a) \in {0, ShortLabelLen - 1, ShortLabelLen}}

\* one-unit legends: every label, and the empty label with an abbreviation
\* (None included, abbreviation being optional)
GenLegends ==
    {<<Unit(l, NoneStr, UNKNOWN, None)>> : l \in Labels \ {<<>>}}
    \cup {<<Unit(<<>>, a, UNKNOWN, None)>> : a \in Abbreviations \cup {NoneStr}}

ScenarioDict ==
    [Points |-> <<Str_spring>>, Lines |-> <<Str_fault>>, Polygons |-> <<Str_qal>>,
     Unknown |-> <<>>]
ScenarioLabels ==
    <<Str_Spring, Str_Normal_Fault, Str_Qal, Str_Xyz, Str_AB>>
ScenarioLegends ==
    {[k \in DOMAIN s |-> Unit(s[k], NoneStr, UNKNOWN, Rect)] :
        s \in SeqsUpTo(Range(ScenarioLabels), Len(ScenarioLabels))}
    \cup {<<Unit(l, NoneStr, t, None)>> : l \in Range(ScenarioLabels), t \in MapUnitTypes}

\* the scenario dictionary with a second line keyword
PairDict == [ScenarioDict EXCEPT !.Lines = <<Str_fault, Str_normal>>]

\* two-unit legends whose units come with any prior type
PairLabels == {Str_Normal_Fault, Str_Granite, Str_AB}
PairLegends ==
    [1..2 -> {Unit(l, NoneStr, t, None) : l \in PairLabels, t \in MapUnitTypes}]

\* AssignedType keeping a type the unit already has (the disabled skip of
\* lines 124-126).
AssignedType_KeepPrior(feature, c) ==
    IF feature.type # UNKNOWN THEN feature.type ELSE c.type

\* line 123 and the assignment of the branch taken: the prior type is
\* discarded and the type of the cascade is set
AssignedType(feature, c) == c.type

\* AppendClassified leaving Unknown units out of the output.
AppendClassified_DropUnknown(out, feature, held, t) ==
    IF t = UNKNOWN THEN out
    ELSE Append(out, [feature EXCEPT !.label = held, !.type = t])

\* output_legend.features.append(feature) of the branch taken (lines 132,
\* 136, 140, 146, 155, 161), the feature holding its label and new type
AppendClassified(out, feature, held, t) ==
    Append(out, [feature EXCEPT !.label = held, !.type = t])

\* lines 107-117: the dictionary and one legend are loaded
InitPrep ==
    /\ SyncIdle
    /\ GenIdle
    /\ LoadIdle
    /\ \/ true_labels \in GenDicts /\ features \in GenLegends
       \/ true_labels = ScenarioDict /\ features \in ScenarioLegends
       \/ true_labels = PairDict /\ features \in PairLegends
    /\ fi = 0
    /\ output_legend = <<>>
    /\ stat_dict = EmptyStats
    /\ prep_pc = "classify"
    /\ si = 0
    /\ shapes = <<>>

\* lines 120-161: one iteration of the loop over legend.features.  With an
\* empty label and no abbreviation the label becomes None and
\* feature.label.lower() raises AttributeError.
ClassifyFeature ==
    /\ prep_pc = "classify"
    /\ fi < Len(features)
    /\ LET feature == features[fi + 1]
           held == HeldLabel(feature)
       IN  IF held = NoneStr
           THEN /\ prep_pc' = "raised"
                /\ UNCHANGED <<output_legend, stat_dict>>
           ELSE LET c == ClassifyLabel(held, true_labels) IN
                /\ stat_dict' = [stat_dict EXCEPT ![c.stat] = Append(@, c.entry)]
                /\ output_legend' =
                      AppendClassified(output_legend, feature, held,
                                       AssignedType(feature, c))
                /\ prep_pc' = "classify"
    /\ fi' = fi + 1
    /\ UNCHANGED <<true_labels, features, si, shapes>>
    /\ UNCHANGED <<syncVars, genVars, loadVars>>

\* lines 162-167: the loop over the features is over
EndClassify ==
    /\ prep_pc = "classify"
    /\ fi = Len(features)
    /\ prep_pc' = "save"
    /\ UNCHANGED <<true_labels, features, fi, output_legend, stat_dict, si, shapes>>
    /\ UNCHANGED <<syncVars, genVars, loadVars>>

\* saveSteupUpJson, lines 66-74: one iteration of the loop over the map units
SaveUnit ==
    /\ prep_pc = "save"
    /\ si < Len(output_legend)
    /\ LET u == [output_legend[si + 1] EXCEPT !.label = ReplaceSpaces(@)] IN
        /\ output_legend' = [output_legend EXCEPT ![si + 1] = u]
        /\ shapes' = shapes \o UnitShapes(u)
    /\ si' = si + 1
    /\ UNCHANGED <<true_labels, features, fi, stat_dict, prep_pc>>
    /\ UNCHANGED <<syncVars, genVars, loadVars>>

\* saveSteupUpJson, lines 76-77: the document is written
WriteJson ==
    /\ prep_pc = "save"
    /\ si = Len(output_legend)
    /\ prep_pc' = "done"
    /\ UNCHANGED <<true_labels, features, fi, output_legend, stat_dict, si, shapes>>
    /\ UNCHANGED <<syncVars, genVars, loadVars>>

NextPrep == ClassifyFeature \/ EndClassify \/ SaveUnit \/ WriteJson

SpecPrep == InitPrep /\ [][NextPrep]_vars

\* ---- saveSteupUpJson on its own ----
MaxBaseLen == 1
BaseChars == {"a", " ", "_"}
Suffixes == {<<>>, <<"_">> \o to_str(POINT), <<"_">> \o to_str(LINE), DescSuffix}
SaveLabels == {b \o x : b \in SeqsUpTo(BaseChars, MaxBaseLen), x \in Suffixes}
SaveUnits == {Unit(l, NoneStr, t, d) :
                l \in SaveLabels, t \in MapUnitTypes, d \in {None, Rect}}

\* line 169: saveSteupUpJson is called on a legend of two map units
InitSave ==
    /\ SyncIdle
    /\ GenIdle
    /\ LoadIdle
    /\ true_labels = ScenarioDict
    /\ features \in [1..2 -> SaveUnits]
    /\ fi = Len(features)
    /\ output_legend = features
    /\ stat_dict = EmptyStats
    /\ prep_pc = "save"
    /\ si = 0
    /\ shapes = <<>>

NextSave == SaveUnit \/ WriteJson

SpecSave == InitSave /\ [][NextSave]_vars


(***************************************************************************)
(* gen_known_labels.py                                                     *)
(***************************************************************************)
MaxCorpus == 2

\* line 78
known_lines ==
    <<Str_monocline, Str_syncline, Str_anticline, Str_antiform, Str_synform>>

\* the labels of the ground-truth corpus
CorpusLabels == {<<"a">>, <<"A">>, Str_Syncline}
CorpusUnits == {Unit(l, NoneStr, t, None) : l \in CorpusLabels, t \in MapUnitTypes}

\* the orders in which a set can be iterated
RECURSIVE OrdersOf(_)
OrdersOf(S) ==
    IF S = {} THEN {<<>>}
    ELSE UNION {{<<x>> \o rest : rest \in OrdersOf(S \ {x})} : x \in S}

\* Unique keeping the list as it is.
Unique_Keep(lst) == {lst}

\* lines 87-90: the lists list(set(lst)) can give; the iteration order of a
\* set of strings depends on the hashes of the process, on the table size
\* and on the insertion history, so every order is possible
Unique(lst) == OrdersOf(Range(lst))

\* lines 68-75: the bucket a feature's label goes to
BucketOf(t) ==
    CASE t = POINT -> "Points"
      [] t = LINE -> "Lines"
      [] t = POLYGON -> "Polygons"
      [] OTHER -> "Unknown"

\* lines 62-65: the corpus is loaded
InitGen ==
    /\ SyncIdle
    /\ PrepIdle
    /\ LoadIdle
    /\ gen_corpus \in SeqsUpTo(CorpusUnits, MaxCorpus)
    /\ gi = 0
    /\ gen_labels = EmptyLabels
    /\ gen_pc = "scan"
    /\ gen_prev = NoLabels

\* lines 67-75: one iteration of the loop over the features
ScanFeature ==
    /\ gen_pc = "scan"
    /\ gi < Len(gen_corpus)
    /\ LET feature == gen_corpus[gi + 1] IN
        gen_labels' = [gen_labels EXCEPT
                          ![BucketOf(feature.type)] = Append(@, Lower(feature.label))]
    /\ gi' = gi + 1
    /\ UNCHANGED <<gen_corpus, gen_pc, gen_prev>>
    /\ UNCHANGED <<syncVars, prepVars, loadVars>>

\* lines 78-80: the manual keywords are appended to the Lines bucket
AddManual ==
    /\ gen_pc = "scan"
    /\ gi = Len(gen_corpus)
    /\ gen_labels' = [gen_labels EXCEPT !.Lines = @ \o known_lines]
    /\ gen_pc' = "manual"
    /\ UNCHANGED <<gen_corpus, gi, gen_prev>>
    /\ UNCHANGED <<syncVars, prepVars, loadVars>>

\* lines 87-92: every bucket is made unique and the dictionary is written
SaveUnique ==
    /\ gen_pc = "manual"
    /\ gen_labels' \in [Points : Unique(gen_labels.Points),
                        Lines : Unique(gen_labels.Lines),
                        Polygons : Unique(gen_labels.Polygons),
                        Unknown : Unique(gen_labels.Unknown)]
    /\ gen_pc' = "written"
    /\ UNCHANGED <<gen_corpus, gi, gen_prev>>
    /\ UNCHANGED <<syncVars, prepVars, loadVars>>

\* the builder is run again over the same corpus, in a new process
RunAgain ==
    /\ gen_pc = "written"
    /\ gen_prev' = [b \in DOMAIN gen_labels |-> Range(gen_labels[b])]
    /\ gen_labels' = EmptyLabels
    /\ gi' = 0
    /\ gen_pc' = "scan"
    /\ UNCHANGED gen_corpus
    /\ UNCHANGED <<syncVars, prepVars, loadVars>>

NextGen == ScanFeature \/ AddManual \/ SaveUnique \/ RunAgain

SpecGen == InitGen /\ [][NextGen]_vars


(***************************************************************************)
(* prep_stepup.py: parallelLoadLegends                                     *)
(***************************************************************************)
MaxFiles == 2
MaxThreads == 2

Path_a_x == <<"a", "/", "x", ".", "j", "s", "o", "n">>
Path_bd_x == <<"b", ".", "d", "/", "x", ".", "j", "s", "o", "n">>
Path_a_yz == <<"a", "/", "y", ".", "z", ".", "j", "s", "o", "n">>
Path_a_dots == <<"a", "/", ".", ".", "j", "s", "o", "n">>
Name_x == <<"x">>
Name_yz == <<"y", ".", "z">>
Name_dots == <<".", ".", "j", "s", "o", "n">>

\* the legend files that can be passed to --data
Paths == {Path_a_x, Path_bd_x, Path_a_yz, Path_a_dots}

\* the last position of character c in str, 0 when it does not occur
LastIndexOf(str, c) ==
    IF \E k \in DOMAIN str : str[k] = c
    THEN CHOOSE k \in DOMAIN str :
            str[k] = c /\ \A j \in DOMAIN str : str[j] = c => j <= k
    ELSE 0

\* os.path.splitext(path)[0]: the path without the extension of its last
\* component; the leading dots of that component do not start an extension
SplitExtRoot(path) ==
    LET dot == LastIndexOf(path, ".")
        sep == LastIndexOf(path, "/")
    IN  IF \E k \in (sep + 1)..(dot - 1) : path[k] # "."
        THEN SubSeq(path, 1, dot - 1)
        ELSE path

\* os.path.basename(path)
BaseName(path) == SubSeq(path, LastIndexOf(path, "/") + 1, Len(path))

\* line 80: map_name of loadLegend
MapName(filepath) == BaseName(SplitExtRoot(filepath))

\* FutureReady not waiting for the task.
FutureReady_NoWait(state) == TRUE

\* line 91: future.result() returns or raises once the task has completed
FutureReady(state) == state \in {"done", "failed"}

\* line 92: legends[map_name] = legend
Put(legends, map_name, legend) ==
    {e \in legends : e[1] # map_name} \cup {<<map_name, legend>>}

Running == {k \in DOMAIN futures : futures[k] = "running"}
Unfinished == {k \in DOMAIN futures : futures[k] \in {"pending", "running"}}

\* lines 83-87: the pool is created, nothing is submitted yet
InitLoad ==
    /\ SyncIdle
    /\ PrepIdle
    /\ GenIdle
    /\ data \in SeqsUpTo(Paths, MaxFiles)
    /\ broken \in SUBSET Range(data)
    /\ unlabeled \in SUBSET (Range(data) \ broken)
    /\ futures = <<>>
    /\ finish_log = <<>>
    /\ stepup_legends = {}
    /\ collected = 0
    /\ load_pc = "run"
    /\ output_files = {}

\* lines 88-89: executor.submit(loadLegend, filepath)
Submit ==
    /\ load_pc = "run"
    /\ Len(futures) < Len(data)
    /\ futures' = Append(futures, "pending")
    /\ UNCHANGED <<data, broken, unlabeled, finish_log, stepup_legends, collected, load_pc,
                   output_files>>
    /\ UNCHANGED <<syncVars, prepVars, genVars>>

\* a free worker thread takes the oldest queued task
StartTask ==
    /\ load_pc \in {"run", "raising"}
    /\ Cardinality(Running) < MaxThreads
    /\ \E k \in DOMAIN futures :
        /\ futures[k] = "pending"
        /\ \A j \in 1..(k - 1) : futures[j] # "pending"
        /\ futures' = [futures EXCEPT ![k] = "running"]
    /\ UNCHANGED <<data, broken, unlabeled, finish_log, stepup_legends, collected, load_pc,
                   output_files>>
    /\ UNCHANGED <<syncVars, prepVars, genVars>>

\* loadLegend, lines 79-81, in a worker thread: the task returns the pair
\* (legend, map_name) or raises; it does not touch the legends mapping
FinishTask ==
    /\ load_pc \in {"run", "raising"}
    /\ \E k \in Running :
        /\ futures' = [futures EXCEPT
                          ![k] = IF data[k] \in broken THEN "failed" ELSE "done"]
        /\ finish_log' = Append(finish_log, k)
    /\ UNCHANGED <<data, broken, unlabeled, stepup_legends, collected, load_pc, output_files>>
    /\ UNCHANGED <<syncVars, prepVars, genVars>>

\* lines 90-92: the collecting thread takes the result of the next future
Collect ==
    /\ load_pc = "run"
    /\ Len(futures) = Len(data)
    /\ collected < Len(futures)
    /\ FutureReady(futures[collected + 1])
    /\ IF futures[collected + 1] = "failed"
       THEN /\ load_pc' = "raising"
            /\ UNCHANGED stepup_legends
       ELSE /\ stepup_legends' = Put(stepup_legends, MapName(data[collected + 1]),
                                     data[collected + 1])
            /\ UNCHANGED load_pc
    /\ collected' = collected + 1
    /\ UNCHANGED <<data, broken, unlabeled, futures, finish_log, output_files>>
    /\ UNCHANGED <<syncVars, prepVars, genVars>>

\* line 85, leaving the with block: shutdown(wait=True) returns once every
\* task has completed; then line 94 returns or the exception propagates
ExitPool ==
    /\ \/ load_pc = "run" /\ Len(futures) = Len(data) /\ collected = Len(futures)
       \/ load_pc = "raising"
    /\ Unfinished = {}
    /\ load_pc' = IF load_pc = "raising" THEN "raised" ELSE "returned"
    /\ UNCHANGED <<data, broken, unlabeled, futures, finish_log, stepup_legends, collected,
                   output_files>>
    /\ UNCHANGED <<syncVars, prepVars, genVars>>

\* main, lines 116-162: every loaded legend is classified; a unit with no
\* label and no abbreviation raises at line 128
ClassifyAll ==
    /\ load_pc = "returned"
    /\ load_pc' = IF \E e \in stepup_legends : e[2] \in unlabeled
                  THEN "classify_raised"
                  ELSE "classified"
    /\ UNCHANGED <<data, broken, unlabeled, futures, finish_log, stepup_legends,
                   collected, output_files>>
    /\ UNCHANGED <<syncVars, prepVars, genVars>>

\* main, lines 167-169: one output file per classified legend
WriteOutputs ==
    /\ load_pc = "classified"
    /\ output_files' = {e[1] : e \in stepup_legends}
    /\ load_pc' = "written"
    /\ UNCHANGED <<data, broken, unlabeled, futures, finish_log, stepup_legends,
                   collected>>
    /\ UNCHANGED <<syncVars, prepVars, genVars>>

NextLoad ==
    \/ Submit
    \/ StartTask
    \/ FinishTask
    \/ Collect
    \/ ExitPool
    \/ ClassifyAll
    \/ WriteOutputs

SpecLoad == InitLoad /\ [][NextLoad]_vars

(***************************************************************************)
(* Properties of the catalog synchronization                               *)
(***************************************************************************)
RunEnded == sync_pc \in {"returned", "raised", "exited"}
Registered == \E k \in DOMAIN session : session[k] = "register_ok"
UnregisterPerformed ==
    \E k \in DOMAIN session : session[k] \in {"unregister_ok", "unregister_raise"}
Fresh(X) == X \notin files0.legends /\ X \notin files0.images

\* C1: every inventory row for which a remote call (cog lookup, legend-item
\* fetch or image download) failed has its id in bad_ids and did not abort
\* the batch: the loop went on to the next row.
C1_RemoteFailureRecovered ==
    \A k \in DOMAIN row_log :
        row_log[k].failed \in {"cog", "legend", "image"}
            => /\ row_log[k].id \in Range(bad_ids)
               /\ row_log[k].flow = "continue"

\* C2: a run that registered has performed unregister by the time it has
\* ended, on every exit path, and until unregister is performed the
\* registration id is non-null.
C2_UnregisterOnEveryExit ==
    /\ (sync_pc = "exited" /\ Registered) => UnregisterPerformed
    /\ (Registered /\ ~UnregisterPerformed) => registration # None

\* C3 as stated: for a map id with no files at the start, once the run has
\* ended the legend file exists if and only if the image file exists.
C3_PairBothOrNeither ==
    \A X \in NgmdbIds :
        (Fresh(X) /\ RunEnded) => (X \in legend_files <=> X \in image_files)

\* C3 amended: for a map id with no files at the start, once the run has
\* ended, the image file exists only if the legend file exists.
C3_ImageImpliesLegend ==
    \A X \in NgmdbIds :
        (Fresh(X) /\ RunEnded) => (X \in image_files => X \in legend_files)

C3_Witness ==
    /\ RunEnded
    /\ \E X \in NgmdbIds : Fresh(X) /\ X \in image_files /\ X \in legend_files
    /\ \E k \in DOMAIN row_log : row_log[k].failed = "legend_empty"

\* C4: a loop iteration over a row whose flag is not '1', or whose legend and
\* image files both exist, issues no request for the row's id, writes no
\* file for it and leaves bad_ids as it was.
C4_SkipTouchesNothing ==
    [][ (sync_pc = "loop" /\ i < Len(inv_df) /\ i' = i + 1
         /\ LET row == inv_df[i + 1] IN
               \/ row.label_completed # "1"
               \/ (row.proddesc \in legend_files /\ row.proddesc \in image_files))
        => LET X == inv_df[i + 1].proddesc IN
             /\ net_calls'[X] = net_calls[X]
             /\ (X \in legend_files') = (X \in legend_files)
             /\ (X \in image_files') = (X \in image_files)
             /\ bad_ids' = bad_ids
             /\ sync_pc' = "loop" ]_vars

C4_Witness ==
    /\ \E k \in 1..i : /\ inv_df[k].label_completed = "1"
                       /\ inv_df[k].proddesc \in files0.legends
                       /\ inv_df[k].proddesc \in files0.images
    /\ \E k \in 1..i : inv_df[k].label_completed # "1"
    /\ sync_pc = "returned"

(***************************************************************************)
(* Properties of the label classifier and of the StepUp encoding           *)
(***************************************************************************)
\* the label held by input feature k once the empty label has been replaced
\* by the abbreviation
Held(k) ==
    IF features[k].label = <<>> THEN features[k].abbreviation ELSE features[k].label

\* L is present in the bucket when case is ignored
PresentIn(L, bucket) ==
    \E j \in DOMAIN bucket : Lower(bucket[j]) = Lower(L)

ExactSomewhere(L) ==
    \/ PresentIn(L, true_labels.Points)
    \/ PresentIn(L, true_labels.Lines)
    \/ PresentIn(L, true_labels.Polygons)

\* the units classified so far
Classified == 1..Len(output_legend)

\* C5: a label present (case-insensitively) in Points, Lines or Polygons
\* gets the type of the first of these buckets that contains it, and its
\* lowercased form is recorded in that bucket's exact-match statistic.
C5_ExactMatchFirstBucket ==
    \A k \in Classified :
        LET L == Held(k)
            t == output_legend[k].type
        IN  /\ PresentIn(L, true_labels.Points)
                => t = POINT /\ Lower(L) \in Range(stat_dict.Points)
            /\ (~PresentIn(L, true_labels.Points) /\ PresentIn(L, true_labels.Lines))
                => t = LINE /\ Lower(L) \in Range(stat_dict.Lines)
            /\ (/\ ~PresentIn(L, true_labels.Points)
                /\ ~PresentIn(L, true_labels.Lines)
                /\ PresentIn(L, true_labels.Polygons))
                => t = POLYGON /\ Lower(L) \in Range(stat_dict.Polygons)

\* the lowercased form of L is an entry of the bucket, as stored
StoredIn(L, bucket) ==
    \E j \in DOMAIN bucket : bucket[j] = Lower(L)

\* C5 with the presence the classifier tests: a label whose lowercased form
\* is an entry of Points, Lines or Polygons as stored gets the type of the
\* first of these buckets that holds it, and its lowercased form is
\* recorded in that bucket's exact-match statistic; an entry stored with an
\* uppercase letter is never matched.
C5_StoredMatchFirstBucket ==
    \A k \in Classified :
        LET L == Held(k)
            t == output_legend[k].type
        IN  /\ StoredIn(L, true_labels.Points)
                => t = POINT /\ Lower(L) \in Range(stat_dict.Points)
            /\ (~StoredIn(L, true_labels.Points) /\ StoredIn(L, true_labels.Lines))
                => t = LINE /\ Lower(L) \in Range(stat_dict.Lines)
            /\ (/\ ~StoredIn(L, true_labels.Points)
                /\ ~StoredIn(L, true_labels.Lines)
                /\ StoredIn(L, true_labels.Polygons))
                => t = POLYGON /\ Lower(L) \in Range(stat_dict.Polygons)
            /\ (\A b \in {"Points", "Lines", "Polygons"} :
                    ~StoredIn(L, true_labels[b]))
                => /\ Lower(L) \notin Range(stat_dict.Points)
                   /\ Lower(L) \notin Range(stat_dict.Lines)
                   /\ Lower(L) \notin Range(stat_dict.Polygons)

C5_Witness ==
    /\ true_labels.Points = <<<<"b">>, <<"a", "B">>>>
    /\ \E k \in Classified :
        /\ Held(k) = <<"B">>
        /\ StoredIn(Held(k), true_labels.Points)
        /\ StoredIn(Held(k), true_labels.Lines)
        /\ StoredIn(Held(k), true_labels.Polygons)
        /\ output_legend[k].type = POINT
        /\ stat_dict.Points = <<<<"b">>>>

\* C6: a label of fewer than 5 characters that is in none of the three
\* buckets is classified Polygon and recorded as a likely polygon, also when
\* it contains a known line keyword.
C6_ShortLabelIsPolygon ==
    \A k \in Classified :
        (Len(Held(k)) < 5 /\ ~ExactSomewhere(Held(k)))
            => /\ output_legend[k].type = POLYGON
               /\ Lower(Held(k)) \in Range(stat_dict.Likely_Polygons)

C6_Witness ==
    \E k \in Classified :
        /\ features[k].label = <<>>
        /\ Len(Held(k)) = 4
        /\ ~ExactSomewhere(Held(k))
        /\ \E j \in DOMAIN true_labels.Lines :
              IsSubstring(true_labels.Lines[j], Lower(Held(k)))
        /\ output_legend[k].type = POLYGON

\* C7: a label of at least 5 characters that is in none of the three buckets
\* is classified Line exactly when some entry of Lines is a substring of the
\* lowercased label, and Unknown otherwise; for Line the recorded keyword is
\* an entry of Lines that is a substring of the lowercased label.
C7_LongLabelLineOrUnknown ==
    \A k \in Classified :
        (Len(Held(k)) >= 5 /\ ~ExactSomewhere(Held(k)))
            => LET t == output_legend[k].type
                   hit(e) == /\ e \in Range(true_labels.Lines)
                             /\ IsSubstring(e, Lower(Held(k)))
               IN  /\ t = LINE <=> \E e \in Range(true_labels.Lines) : hit(e)
                   /\ t \in {LINE, UNKNOWN}
                   /\ t = LINE => \E e \in Range(stat_dict.Likely_Lines) : hit(e)
                   /\ t = UNKNOWN => Lower(Held(k)) \in Range(stat_dict.Unknown)

C7_Witness ==
    \E k \in Classified :
        /\ Len(Held(k)) >= 5
        /\ ~ExactSomewhere(Held(k))
        /\ Len(true_labels.Lines) = 2
        /\ ~IsSubstring(true_labels.Lines[1], Lower(Held(k)))
        /\ IsSubstring(true_labels.Lines[2], Lower(Held(k)))
        /\ output_legend[k].type = LINE
        /\ stat_dict.Likely_Lines = <<true_labels.Lines[2]>>

\* the end-to-end scenario has been classified
ScenarioClassified ==
    /\ true_labels = ScenarioDict
    /\ [k \in DOMAIN features |-> features[k].label] = ScenarioLabels
    /\ Len(output_legend) = Len(ScenarioLabels)

OutputTypes == [k \in DOMAIN output_legend |-> output_legend[k].type]

\* C8 as stated: in the end-to-end scenario the units Spring, Normal Fault,
\* Qal, Xyz, AB are classified Point, Line, Polygon, Unknown, Polygon.
C8_ScenarioAsStated ==
    ScenarioClassified => OutputTypes = <<POINT, LINE, POLYGON, UNKNOWN, POLYGON>>

\* C8 amended: in the end-to-end scenario the units Spring, Normal Fault,
\* Qal, Xyz, AB are classified Point, Line, Polygon, Polygon, Polygon.
C8_ScenarioTypes ==
    ScenarioClassified => OutputTypes = <<POINT, LINE, POLYGON, POLYGON, POLYGON>>

C8_Witness == ScenarioClassified /\ prep_pc = "done"

\* the label of input unit k with spaces replaced by underscores
Normalized(k) ==
    [j \in DOMAIN features[k].label |->
        IF features[k].label[j] = " " THEN "_" ELSE features[k].label[j]]

BoxShapes == SelectSeq(shapes, LAMBDA sh : sh.points = "label_bbox")
DescShapes == SelectSeq(shapes, LAMBDA sh : sh.points = "description")

EndsWith(str, suffix) ==
    /\ Len(suffix) <= Len(str)
    /\ SubSeq(str, Len(str) - Len(suffix) + 1, Len(str)) = suffix

\* the normalized label of unit k ends in a type suffix or in '_desc'
ReservedEnding(k) ==
    \/ EndsWith(Normalized(k), <<"_", "d", "e", "s", "c">>)
    \/ \E t \in {POINT, LINE, POLYGON} :
          EndsWith(Normalized(k), <<"_">> \o to_str(t))

Saved == prep_pc = "done" /\ Len(BoxShapes) = Len(features)

\* C9 as stated: two units that differ in normalized label or in type never
\* get the same label-box shape label, and no label-box shape label equals a
\* description shape label.
C9_EncodingInjective ==
    Saved =>
        /\ \A j, k \in DOMAIN features :
              (Normalized(j) # Normalized(k) \/ features[j].type # features[k].type)
                  => BoxShapes[j].label # BoxShapes[k].label
        /\ \A j \in DOMAIN BoxShapes, k \in DOMAIN DescShapes :
              BoxShapes[j].label # DescShapes[k].label

\* C9 amended: the same, for units whose normalized labels do not end in
\* '_' followed by a type name, nor in '_desc'.
C9_EncodingInjectiveUnreserved ==
    (Saved /\ \A k \in DOMAIN features : ~ReservedEnding(k)) =>
        /\ \A j, k \in DOMAIN features :
              (Normalized(j) # Normalized(k) \/ features[j].type # features[k].type)
                  => BoxShapes[j].label # BoxShapes[k].label
        /\ \A j \in DOMAIN BoxShapes, k \in DOMAIN DescShapes :
              BoxShapes[j].label # DescShapes[k].label

C9_Witness ==
    /\ Saved
    /\ Len(features) = 2
    /\ \A k \in DOMAIN features : ~ReservedEnding(k)
    /\ features[1].label # features[2].label
    /\ Normalized(1) = Normalized(2)
    /\ features[1].type = UNKNOWN
    /\ features[2].type = LINE
    /\ Len(DescShapes) = 2

\* str with its spaces replaced by underscores
Underscored(str) == [j \in DOMAIN str |-> IF str[j] = " " THEN "_" ELSE str[j]]

\* C11: the output legend holds every input feature once and in input
\* order, whatever branch classified it: while the legend is classified the
\* output is the classified prefix of the input, and once the legend is
\* classified it has the length of the input; unit k of the output is unit
\* k of the input with its held label and one of the four types.
C11_OutputKeepsEveryFeature ==
    /\ prep_pc \in {"classify", "save", "done"} => Len(output_legend) = fi
    /\ prep_pc \in {"save", "done"} => Len(output_legend) = Len(features)
    /\ \A k \in DOMAIN output_legend :
          /\ output_legend[k].abbreviation = features[k].abbreviation
          /\ output_legend[k].description = features[k].description
          /\ output_legend[k].label =
                IF k <= si THEN Underscored(Held(k)) ELSE Held(k)
          /\ output_legend[k].type \in {POINT, LINE, POLYGON, UNKNOWN}

C11_Witness ==
    /\ prep_pc = "done"
    /\ Len(features) = 2
    /\ features[1].label # features[2].label
    /\ output_legend[1].type = UNKNOWN
    /\ output_legend[2].type = LINE
    /\ Len(output_legend) = 2

\* the orders in which the entries of a list can be iterated
IterationOrders(lst) ==
    {[k \in DOMAIN lst |-> lst[q[k]]] :
        q \in {f \in [DOMAIN lst -> DOMAIN lst] :
                 \A j, k \in DOMAIN lst : j # k => f[j] # f[k]}}

\* C12: the type given to a unit depends only on its held label and on the
\* dictionary: two units of the batch with the same held label get the same
\* type, whatever their prior types and the units classified before them,
\* and the cascade gives the same type under every iteration order of the
\* known Lines entries.
C12_TypeDependsOnLabelAndDictionary ==
    /\ \A j, k \in DOMAIN output_legend :
          Held(j) = Held(k) => output_legend[j].type = output_legend[k].type
    /\ \A k \in DOMAIN output_legend :
          \A lines \in IterationOrders(true_labels.Lines) :
              ClassifyLabel(Held(k), [true_labels EXCEPT !.Lines = lines]).type
                  = output_legend[k].type

C12_Witness ==
    /\ prep_pc = "done"
    /\ Len(output_legend) = 2
    /\ Held(1) = Held(2)
    /\ features[1].type = POINT
    /\ features[2].type = POLYGON
    /\ output_legend[1].type = LINE
    /\ output_legend[2].type = LINE
    /\ Len(true_labels.Lines) = 2
    /\ \A e \in Range(true_labels.Lines) : IsSubstring(e, Lower(Held(1)))

(***************************************************************************)
(* Properties of the known-label builder                                   *)
(***************************************************************************)
\* the lowercased labels of the corpus units of the given types
CorpusSet(types) ==
    {Lower(gen_corpus[k].label) : k \in {j \in DOMAIN gen_corpus :
                                             gen_corpus[j].type \in types}}

ManualKeywords ==
    {Str_monocline, Str_syncline, Str_anticline, Str_antiform, Str_synform}

\* C10: every bucket the builder writes is free of duplicates and holds, as
\* a set, the lowercased labels of the corpus units of its type (Unknown
\* taking every type other than Point, Line, Polygon), Lines holding the five
\* manual keywords as well; a second run over the same corpus writes
\* set-equal buckets.
C10_BucketsAreCorpusSets ==
    gen_pc = "written" =>
        /\ \A b \in DOMAIN gen_labels :
              \A j, k \in DOMAIN gen_labels[b] :
                  j # k => gen_labels[b][j] # gen_labels[b][k]
        /\ Range(gen_labels.Points) = CorpusSet({POINT})
        /\ Range(gen_labels.Lines) = CorpusSet({LINE}) \cup ManualKeywords
        /\ Range(gen_labels.Polygons) = CorpusSet({POLYGON})
        /\ Range(gen_labels.Unknown) = CorpusSet(MapUnitTypes \ {POINT, LINE, POLYGON})
        /\ gen_prev # NoLabels =>
              \A b \in DOMAIN gen_labels : gen_prev[b] = Range(gen_labels[b])

C10_Witness ==
    /\ gen_pc = "written"
    /\ gen_prev # NoLabels
    /\ gen_corpus = <<Unit(<<"a">>, NoneStr, LINE, None),
                      Unit(<<"A">>, NoneStr, LINE, None)>>
    /\ gen_prev.Lines = ManualKeywords \cup {<<"a">>}
    /\ gen_labels.Lines =
          <<Str_synform, Str_syncline, <<"a">>, Str_anticline, Str_monocline,
            Str_antiform>>

\* a bucket filled from the corpus alone, in the order the first-seen order
\* would not give, next to the keyword met in the corpus
C10_WitnessBuckets ==
    /\ gen_pc = "written"
    /\ gen_corpus = <<Unit(<<"A">>, NoneStr, POINT, None),
                      Unit(Str_Syncline, NoneStr, POINT, None)>>
    /\ gen_labels.Points = <<Str_syncline, <<"a">>>>
    /\ Len(gen_labels.Lines) = 5

(***************************************************************************)
(* Properties of parallelLoadLegends                                       *)
(***************************************************************************)
\* the map name of every legend file: the base name without the extension
NameOfFile ==
    [p \in Paths |->
        CASE p = Path_a_x -> Name_x
          [] p = Path_bd_x -> Name_x
          [] p = Path_a_yz -> Name_yz
          [] p = Path_a_dots -> Name_dots]

\* for each map name, the last file of data with that name
LastOfName ==
    {<<NameOfFile[data[k]], data[k]>> : k \in {j \in DOMAIN data :
        \A h \in DOMAIN data : h > j => NameOfFile[data[h]] # NameOfFile[data[j]]}}

\* C13: the legends mapping changes only by the collecting thread inserting
\* the result of the next future, and only once that task has completed;
\* the mapping returned is decided by data alone (keyed by base name without
\* extension, the later file winning), whatever the order in which the
\* tasks ran and completed; and when a file fails to load the load never
\* returns and no output file is written.
C13_JoinThenMerge ==
    /\ [][ stepup_legends' # stepup_legends
            => /\ load_pc = "run"
               /\ collected' = collected + 1
               /\ futures[collected'] = "done"
               /\ futures' = futures ]_vars
    /\ [](load_pc \in {"returned", "classified", "classify_raised", "written"}
            => stepup_legends = LastOfName)
    /\ []((\E k \in DOMAIN data : data[k] \in broken)
            => /\ load_pc \notin {"returned", "classified", "classify_raised",
                                  "written"}
               /\ output_files = {})
    /\ [](load_pc = "written" => output_files = {e[1] : e \in LastOfName})

C13_Witness ==
    /\ load_pc = "written"
    /\ data = <<Path_a_x, Path_bd_x>>
    /\ finish_log = <<2, 1>>
    /\ stepup_legends = {<<Name_x, Path_bd_x>>}
    /\ output_files = {Name_x}

C13_WitnessFailure ==
    /\ load_pc = "raised"
    /\ data = <<Path_a_yz, Path_a_x>>
    /\ broken = {Path_a_x}
    /\ stepup_legends = {<<Name_yz, Path_a_yz>>}
    /\ output_files = {}

=============================================================================
